---- MODULE Spec2Model ----
(***************************************************************************)
(* MaxPhaseCorrelationOptimizer (ITKMontage): estimation of the offsets    *)
(* between two images from the maxima of their phase correlation surface.  *)
(*                                                                         *)
(* Numbers.  Pixels are real numbers in the code.  Here a pixel is an      *)
(* integer count of 1/FixedOne units (fixed point), and a continuous index *)
(* or an offset component is an exact fraction <<n, d>> with d > 0.  The   *)
(* IEEE results of a division by zero are <<1, 0>> (+inf), <<-1, 0>>       *)
(* (-inf) and <<0, 0>> (NaN).  The result of the Cosine interpolation      *)
(* (acos, atan) is kept as the term of its arguments.                      *)
(***************************************************************************)
EXTENDS Integers, Sequences, FiniteSets, TLC

\* ------------------------------------------------------------------ bounds
SizeX == 4
SizeY == 3
MaxPeaks == 2
MaxOffsetCount == 3
MaxSets == 1
ParSizeX == 6
ParSizeY == 3
MaxWorkers == 2

\* ------------------------------------------------------- program constants
ImageDimension == 2
FixedOne == 1000
HumaneScale == 1000
znSize == 4
ZeroShift == 10
ZeroDistFactor == 100
DefaultMergePeaks == 1
DefaultZeroSuppression == 5
DefaultPixelDistanceTolerance == 0
ZeroSuppressionMax == 100

Dims == 1 .. ImageDimension

\* ------------------------------------------------------------- arithmetic
Abs(x) == IF x < 0 THEN -x ELSE x

Max2(a, b) == IF a < b THEN b ELSE a

\* C++ integer conversion and division round toward zero
TruncDiv(a, b) ==
  IF (a >= 0) = (b > 0) THEN Abs(a) \div Abs(b) ELSE -(Abs(a) \div Abs(b))

RECURSIVE GCD(_, _)
GCD(a, b) == IF b = 0 THEN a ELSE GCD(b, a % b)

RECURSIVE Pow(_, _)
Pow(b, e) == IF e = 0 THEN 1 ELSE b * Pow(b, e - 1)

Sign(x) == IF x > 0 THEN 1 ELSE IF x < 0 THEN -1 ELSE 0

\* fractions <<n, d>>, d > 0 in lowest terms; d = 0 is a non-finite double
Frac(n, d) ==
  IF d = 0 THEN <<Sign(n), 0>>
  ELSE LET g == GCD(Abs(n), Abs(d))
           s == IF d < 0 THEN -1 ELSE 1
       IN <<s * (n \div g), s * (d \div g)>>

IsFinite(q) == q[2] > 0

FromInt(i) == <<i, 1>>

\* a + b, a - b and k * a of doubles (inf - inf and 0 * inf are NaN)
FracAdd(a, b) ==
  IF IsFinite(a) /\ IsFinite(b) THEN Frac(a[1] * b[2] + b[1] * a[2], a[2] * b[2])
  ELSE IF IsFinite(a) THEN b
  ELSE IF IsFinite(b) THEN a
  ELSE IF a[1] = b[1] THEN a ELSE <<0, 0>>

FracNeg(a) == <<-a[1], a[2]>>

FracSub(a, b) == FracAdd(a, FracNeg(b))

FracScale(k, a) ==
  IF IsFinite(a) THEN Frac(k * a[1], a[2]) ELSE <<Sign(k) * a[1], 0>>

\* std::abs(a) <= std::abs(b) of doubles: false as soon as one is NaN
AbsLeq(a, b) ==
  IF a = <<0, 0>> \/ b = <<0, 0>> THEN FALSE
  ELSE IF ~IsFinite(b) THEN TRUE
  ELSE IF ~IsFinite(a) THEN FALSE
  ELSE IF a[2] = b[2] THEN Abs(a[1]) <= Abs(b[1])
  ELSE Abs(a[1]) * b[2] <= Abs(b[1]) * a[2]

\* f itself; TLC evaluates a function constructor again at each application,
\* and evaluates it once and for all when it compares it
Evaluated(f) == IF f = f THEN f ELSE f

\* FixedOne * exp(-n / d) for n >= 0, d > 0: exp(-1) taken q times for the
\* integer part q of n / d, and the Taylor series of exp(-r / d) for the rest
RECURSIVE ExpInt(_)
ExpInt(q) == IF q = 0 THEN FixedOne ELSE (ExpInt(q - 1) * 3679) \div 10000

RECURSIVE ExpTaylor(_, _, _, _)
ExpTaylor(r, d, k, term) ==
  IF k > 8 \/ term = 0 THEN 0
  ELSE LET next == (term * r) \div (d * k)
       IN (IF k % 2 = 1 THEN -next ELSE next) + ExpTaylor(r, d, k + 1, next)

ExpNeg(n, d) ==
  LET q == n \div d
      r == n % d
      f == FixedOne + ExpTaylor(r, d, 1, FixedOne)
  IN (ExpInt(q) * f) \div FixedOne

\* std::vector::resize(n) and erase(begin() + i) (positions count from 1 here)
RECURSIVE Fill(_, _)
Fill(n, fill) == IF n <= 0 THEN <<>> ELSE Append(Fill(n - 1, fill), fill)

Resize(s, n, fill) ==
  IF n <= Len(s) THEN SubSeq(s, 1, n) ELSE s \o Fill(n - Len(s), fill)

Erase(s, i) == SubSeq(s, 1, i - 1) \o SubSeq(s, i + 1, Len(s))

\* the sequence of f[s[1]], f[s[2]], ...
RECURSIVE Gather(_, _)
Gather(f, s) ==
  IF s = <<>> THEN <<>> ELSE <<f[Head(s)]>> \o Gather(f, Tail(s))

\* ------------------------------------------------------------------ state
VARIABLES
  input,                      \* input 0: the correlation surface, or NoInput
  fixed,                      \* input 1: spacing and origin of the fixed image
  moving,                     \* input 2: origin of the moving image
  m_PeakInterpolationMethod,
  m_MergePeaks,
  m_ZeroSuppression,
  m_PixelDistanceTolerance,
  m_Offsets,                  \* superclass: one offset per requested peak
  m_Confidences,              \* superclass: one confidence per offset
  m_MaxCalculator,            \* its image (iAdjusted) and its N
  locals,                     \* indices, maxIndex and y0, y1, y2 of the last call
  sets,                       \* number of Set calls the caller made
  mt,                         \* the multithreader: the stage it runs, the regions
                              \* of its workers, their positions, and iAdjusted
  pc                          \* what the caller did last

vars == <<input, fixed, moving, m_PeakInterpolationMethod, m_MergePeaks,
          m_ZeroSuppression, m_PixelDistanceTolerance, m_Offsets,
          m_Confidences, m_MaxCalculator, locals, sets, mt, pc>>

NoInput == [absent |-> TRUE]

\* no ParallelizeImageRegion is under way
NoThreads == [stage |-> "idle"]

NDEBUG == TRUE

\* ---------------------------------------------------------------- regions
\* the indices of a region with the given start index and size
RegionOf(oIndex, size) ==
  {ind \in [Dims -> 0 .. (SizeX + SizeY + 1)] :
     \A d \in Dims : oIndex[d] <= ind[d] /\ ind[d] < oIndex[d] + size[d]}

IsInside(oIndex, size, ind) ==
  \A d \in Dims : oIndex[d] <= ind[d] /\ ind[d] < oIndex[d] + size[d]

RECURSIVE NumberOfPixels(_, _)
NumberOfPixels(size, d) == IF d = 0 THEN 1 ELSE size[d] * NumberOfPixels(size, d - 1)

\* the k-th index (from 0) in the iteration order of ImageRegionIterator
IndexAt(oIndex, size, k) ==
  [d \in Dims |-> oIndex[d] + ((k \div NumberOfPixels(size, d - 1)) % size[d])]

RECURSIVE IterationOrder(_, _, _)
IterationOrder(oIndex, size, k) ==
  IF k = 0 THEN <<>>
  ELSE Append(IterationOrder(oIndex, size, k - 1), Evaluated(IndexAt(oIndex, size, k - 1)))

\* --------------------------------------------------- bias field (4.1)
\* the values ComputeOffset takes from its three inputs
Geometry ==
  LET size == input.size
      oIndex == input.index
      spacing == fixed.spacing
      shift == Evaluated([d \in Dims |-> moving.origin[d] - fixed.origin[d]])
      adjustedSize == Evaluated([d \in Dims |-> size[d] + oIndex[d]])
      RECURSIVE SumSq(_)
      SumSq(d) == IF d = 0 THEN 0 ELSE adjustedSize[d] * adjustedSize[d] + SumSq(d - 1)
  IN [size |-> size, oIndex |-> oIndex, spacing |-> spacing, shift |-> shift,
      adjustedSize |-> adjustedSize,
      imageSize2 |-> SumSq(ImageDimension),
      directExpectedIndex |->
        Evaluated([d \in Dims |->
                     TruncDiv(shift[d] + oIndex[d] * spacing[d], spacing[d])]),
      mirrorExpectedIndex |->
        Evaluated([d \in Dims |->
                     TruncDiv(shift[d] + adjustedSize[d] * spacing[d], spacing[d])])]

zeroDist2(tolerance) == ZeroDistFactor * tolerance * tolerance

\* dist of the pixel at ind: per axis the smaller of the squared distances to
\* the direct and to the mirror expected index
BiasDist(g, ind) ==
  LET distDirect(d) == (g.directExpectedIndex[d] - ind[d]) * (g.directExpectedIndex[d] - ind[d])
      distMirror(d) == (g.mirrorExpectedIndex[d] - ind[d]) * (g.mirrorExpectedIndex[d] - ind[d])
      RECURSIVE Sum(_)
      Sum(d) == IF d = 0 THEN 0
                ELSE (IF distDirect(d) <= distMirror(d) THEN distDirect(d) ELSE distMirror(d))
                     + Sum(d - 1)
  IN Sum(ImageDimension)

\* FixedOne * exp(distancePenaltyFactor * dist); log(0.9) is -0.10536
DistancePenalty(g, tolerance, dist) ==
  IF tolerance = 0
  THEN ExpNeg(10 * dist, g.imageSize2)
  ELSE ExpNeg(10536 * dist, 100000 * tolerance * tolerance)

\* the hard zero from zeroDist2 on instead of beyond it
BiasHardZeroFrom(tolerance, dist) == tolerance > 0 /\ dist >= zeroDist2(tolerance)

\* whether the pixel is set to 0 instead of multiplied by the exponential
BiasHardZero(tolerance, dist) == tolerance > 0 /\ dist > zeroDist2(tolerance)

BiasPixel(g, tolerance, in, ind) ==
  LET dist == BiasDist(g, ind)
  IN IF BiasHardZero(tolerance, dist) THEN 0
     ELSE LET pixel == TruncDiv(in * DistancePenalty(g, tolerance, dist), FixedOne)
          IN IF NDEBUG THEN pixel ELSE pixel * HumaneScale

BiasField(g, tolerance, pixels) ==
  [ind \in DOMAIN pixels |-> BiasPixel(g, tolerance, pixels[ind], ind)]

\* --------------------------------------------- zero-shift suppressor (4.2)
ZeroDist(g, ind) ==
  LET distD(d) == IF ind[d] - g.oIndex[d] > g.size[d] \div 2
                  THEN g.size[d] - (ind[d] - g.oIndex[d])
                  ELSE ind[d] - g.oIndex[d]
      RECURSIVE Sum(_)
      Sum(d) == IF d = 0 THEN 0 ELSE distD(d) + Sum(d - 1)
  IN Sum(ImageDimension)

\* the neighbourhood of the zero index up to znSize instead of below it
pixelValidUpTo(g, ind) ==
  \/ ZeroDist(g, ind) <= znSize
  \/ \E d \in Dims : ind[d] = g.oIndex[d]

\* whether the zero suppression changes the pixel at ind
pixelValid(g, ind) ==
  \/ ZeroDist(g, ind) < znSize
  \/ \E d \in Dims : ind[d] = g.oIndex[d]

ZeroSuppressPixel(g, zeroSuppression, pixel, ind) ==
  IF pixelValid(g, ind)
  THEN LET dist == ZeroDist(g, ind)
       IN TruncDiv(pixel * (dist + ZeroShift), zeroSuppression + dist + ZeroShift)
  ELSE pixel

ZeroSuppressed(g, zeroSuppression, img) ==
  IF zeroSuppression > 0
  THEN [ind \in DOMAIN img |-> ZeroSuppressPixel(g, zeroSuppression, img[ind], ind)]
  ELSE img

\* the image handed to the maxima calculator
iAdjusted(g) ==
  Evaluated(ZeroSuppressed(g, m_ZeroSuppression,
                           BiasField(g, m_PixelDistanceTolerance, input.pixels)))

\* ------------------------------------------ peak extractor (4.3, external)
\* the list top of the indices of the greatest pixels so far, after the pixel
\* at p: p goes behind the pixels that are not smaller, and the list keeps at
\* most n indices
SortedInsert(img, top, n, p) ==
  IF Len(top) = n /\ (n = 0 \/ img[top[n]] >= img[p]) THEN top
  ELSE LET at == Cardinality({j \in 1 .. Len(top) : img[top[j]] >= img[p]})
           all == SubSeq(top, 1, at) \o <<p>> \o SubSeq(top, at + 1, Len(top))
       IN IF Len(all) > n THEN SubSeq(all, 1, n) ELSE all

RECURSIVE TopOf(_, _, _, _)
TopOf(img, order, n, k) ==
  IF k = 0 THEN <<>> ELSE SortedInsert(img, TopOf(img, order, n, k - 1), n, order[k])

\* GetIndicesOfMaxima() after SetImage(img), SetN(n) and ComputeMaxima():
\* the n greatest pixels in descending order, equal ones in iteration order
IndicesOfMaxima(g, img, n) ==
  LET pixels == NumberOfPixels(g.size, ImageDimension)
  IN TopOf(img, IterationOrder(g.oIndex, g.size, pixels), n, pixels)

\* GetMaxima(), given GetIndicesOfMaxima()
MaximaAt(img, ind) == Gather(img, ind)

\* ------------------------------------------------ number of maxima asked
\* std::ceil(m_Offsets.size() / 2) is taken of an integer quotient
RequestedN(mergePeaks, count) ==
  IF mergePeaks # 0
  THEN (count \div 2) * (Pow(3, ImageDimension) - 1)
  ELSE count

\* --------------------------------------------- candidate selector (4.4)
\* std::upper_bound(begin, end, 0.0, std::greater): the number of elements in
\* front of the first one that 0.0 is greater than
zeroBound(conf) ==
  IF \E i \in 1 .. Len(conf) : 0 > conf[i]
  THEN (CHOOSE i \in 1 .. Len(conf) :
          0 > conf[i] /\ \A j \in 1 .. (i - 1) : ~(0 > conf[j])) - 1
  ELSE Len(conf)

\* ---------------------------------------------------- peak merger (4.5)
\* the city-block distance: the sum over the axes of the wrapped index distance
PeakDistCityBlock(size, a, b) ==
  LET d1(d) == LET raw == Abs(a[d] - b[d])
               IN IF raw > size[d] \div 2 THEN size[d] - raw ELSE raw
      RECURSIVE SumTo(_)
      SumTo(d) == IF d = 0 THEN 0 ELSE SumTo(d - 1) + d1(d)
  IN SumTo(ImageDimension)

\* maximum over the axes of the wrapped index distance
PeakDist(size, a, b) ==
  LET d1(d) == LET raw == Abs(a[d] - b[d])
               IN IF raw > size[d] \div 2 THEN size[d] - raw ELSE raw
      RECURSIVE MaxTo(_)
      MaxTo(d) == IF d = 0 THEN 0 ELSE Max2(MaxTo(d - 1), d1(d))
  IN MaxTo(ImageDimension)

\* the inner loop: the first k < i within the merge distance, or i
NearbyK(size, mergePeaks, ind, i) ==
  IF \E k \in 1 .. (i - 1) : PeakDist(size, ind[i], ind[k]) <= mergePeaks
  THEN CHOOSE k \in 1 .. (i - 1) :
         /\ PeakDist(size, ind[i], ind[k]) <= mergePeaks
         /\ \A j \in 1 .. (k - 1) : PeakDist(size, ind[i], ind[j]) > mergePeaks
  ELSE i

\* the outer loop going on to position i + 1 after it erased position i
RECURSIVE MergeLoopSkipping(_, _, _, _, _)
MergeLoopSkipping(size, mergePeaks, conf, ind, i) ==
  IF i > Len(ind) THEN [conf |-> conf, ind |-> ind]
  ELSE LET k == NearbyK(size, mergePeaks, ind, i)
       IN IF k < i
          THEN MergeLoopSkipping(size, mergePeaks,
                                 Erase([conf EXCEPT ![k] = conf[k] + conf[i]], i),
                                 Erase(ind, i), i + 1)
          ELSE MergeLoopSkipping(size, mergePeaks, conf, ind, i + 1)

\* the outer loop from position i on (positions count from 1 here)
RECURSIVE MergeLoop(_, _, _, _, _)
MergeLoop(size, mergePeaks, conf, ind, i) ==
  IF i > Len(ind) THEN [conf |-> conf, ind |-> ind]
  ELSE LET k == NearbyK(size, mergePeaks, ind, i)
       IN IF k < i
          THEN MergeLoop(size, mergePeaks,
                         Erase([conf EXCEPT ![k] = conf[k] + conf[i]], i),
                         Erase(ind, i), i)
          ELSE MergeLoop(size, mergePeaks, conf, ind, i + 1)

\* std::sort of the positions by descending confidence; positions of equal
\* confidence stay in list order (insertion sort of a short range)
RECURSIVE SortedPositions(_, _)
SortedPositions(conf, n) ==
  IF n = 0 THEN <<>>
  ELSE LET prev == SortedPositions(conf, n - 1)
           at == Cardinality({j \in 1 .. (n - 1) : conf[prev[j]] >= conf[n]})
       IN SubSeq(prev, 1, at) \o <<n>> \o SubSeq(prev, at + 1, n - 1)

MergePeaks(size, mergePeaks, conf, ind) ==
  IF mergePeaks > 0
  THEN LET merged == MergeLoop(size, mergePeaks, conf, ind, 2)
           sIndices == SortedPositions(merged.conf, Len(merged.conf))
       IN [conf |-> Gather(merged.conf, sIndices), ind |-> Gather(merged.ind, sIndices)]
  ELSE [conf |-> conf, ind |-> ind]

\* ------------------------------------------- sub-pixel interpolator (4.6)
WithAxis(ind, i, v) == [ind EXCEPT ![i] = v]

\* both neighbours of ind along axis i are inside the region
Refinable(g, ind, i) ==
  /\ IsInside(g.oIndex, g.size, WithAxis(ind, i, ind[i] - 1))
  /\ IsInside(g.oIndex, g.size, WithAxis(ind, i, ind[i] + 1))

\* y0, y1, y2 of candidate m (y1 is m_Confidences[m]) along axis i
Samples(img, conf, ind, m, i) ==
  [y0 |-> img[WithAxis(ind[m], i, ind[m][i] - 1)],
   y1 |-> conf[m],
   y2 |-> img[WithAxis(ind[m], i, ind[m][i] + 1)]]

\* maxIndex[i] += (y0 - y2) / (2 * (y0 - 2 * y1 + y2))
Parabolic(index, y) ==
  FracAdd(FromInt(index), Frac(y.y0 - y.y2, 2 * (y.y0 - 2 * y.y1 + y.y2)))

\* the Cosine result, as the term of its arguments (clip is 1 when m > 0)
Cosine(index, y, m) == <<index, y.y0, y.y1, y.y2, IF m > 1 THEN 1 ELSE 0>>

IsTerm(q) == Len(q) > 2

InterpolateAxis(g, img, method, conf, ind, m, i) ==
  IF method = "None" \/ ~Refinable(g, ind[m], i) THEN FromInt(ind[m][i])
  ELSE IF method = "Parabolic" THEN Parabolic(ind[m][i], Samples(img, conf, ind, m, i))
  ELSE Cosine(ind[m][i], Samples(img, conf, ind, m, i), m)

\* ------------------------------------------------- offset resolver (4.7)
DirectOffset(shift, spacing, oIndex, maxIndex) ==
  FracSub(FromInt(shift), FracScale(spacing, FracSub(maxIndex, FromInt(oIndex))))

MirrorOffset(shift, spacing, adjSize, maxIndex) ==
  FracSub(FromInt(shift), FracScale(spacing, FracSub(maxIndex, FromInt(adjSize))))

\* the resolver without std::abs: directOffset <= mirrorOffset
ResolveOffsetSigned(shift, spacing, oIndex, adjSize, maxIndex) ==
  IF IsTerm(maxIndex) THEN maxIndex \o <<shift, spacing, oIndex, adjSize>>
  ELSE LET directOffset == DirectOffset(shift, spacing, oIndex, maxIndex)
           mirrorOffset == MirrorOffset(shift, spacing, adjSize, maxIndex)
           difference == FracSub(directOffset, mirrorOffset)
       IN IF difference # <<0, 0>> /\ difference[1] <= 0
          THEN directOffset ELSE mirrorOffset

ResolveOffset(shift, spacing, oIndex, adjSize, maxIndex) ==
  IF IsTerm(maxIndex) THEN maxIndex \o <<shift, spacing, oIndex, adjSize>>
  ELSE LET directOffset == DirectOffset(shift, spacing, oIndex, maxIndex)
           mirrorOffset == MirrorOffset(shift, spacing, adjSize, maxIndex)
       IN IF AbsLeq(directOffset, mirrorOffset) THEN directOffset ELSE mirrorOffset

ZeroOffset == [d \in Dims |-> FromInt(0)]

\* --------------------------------------------------------- ComputeOffset
\* everything ComputeOffset computes when input 0 is present
Computed ==
  LET g == Geometry
      img == iAdjusted(g)
      n == RequestedN(m_MergePeaks, Len(m_Offsets))
      indicesOfMaxima == IndicesOfMaxima(g, img, n)
      maxima == MaximaAt(img, indicesOfMaxima)
      cut == zeroBound(maxima)
      merged == MergePeaks(g.size, m_MergePeaks,
                           Resize(maxima, cut, 0), Resize(indicesOfMaxima, cut, 0))
      count == IF Len(m_Offsets) > Len(merged.conf)
               THEN Len(merged.conf) ELSE Len(m_Offsets)
      conf == Resize(merged.conf, count, 0)
      indices == Resize(merged.ind, count, 0)
      maxIndex == Evaluated([m \in 1 .. count |->
                     [i \in Dims |->
                        InterpolateAxis(g, img, m_PeakInterpolationMethod,
                                        conf, indices, m, i)]])
      offsets == Evaluated([m \in 1 .. count |->
                    [i \in Dims |->
                       ResolveOffset(g.shift[i], g.spacing[i], g.oIndex[i],
                                     g.adjustedSize[i], maxIndex[m][i])]])
  IN [image |-> img, n |-> n, maxima |-> maxima, indicesOfMaxima |-> indicesOfMaxima,
      merged |-> merged, count |-> count, indices |-> indices, maxIndex |-> maxIndex,
      offsets |-> offsets,
      confidences |-> Evaluated([m \in 1 .. count |->
                         IF NDEBUG THEN conf[m] * HumaneScale ELSE conf[m]])]

NoLocals == [indices |-> <<>>, maxIndex |-> <<>>, merged |-> <<>>, requested |-> 0]

ComputeOffset ==
  IF input = NoInput
  THEN /\ pc' = "returned"
       /\ locals' = NoLocals
       /\ UNCHANGED <<input, fixed, moving, m_PeakInterpolationMethod, m_MergePeaks,
                      m_ZeroSuppression, m_PixelDistanceTolerance, m_Offsets,
                      m_Confidences, m_MaxCalculator, sets, mt>>
  ELSE \E r \in {Computed} :
          /\ m_MaxCalculator' = [image |-> r.image, N |-> r.n, maxima |-> r.maxima,
                                 indices |-> r.indicesOfMaxima]
          /\ m_Confidences' = r.confidences
          /\ m_Offsets' = r.offsets
          /\ UNCHANGED <<sets, mt>>
          /\ locals' = [indices |-> r.indices, maxIndex |-> r.maxIndex,
                        merged |-> r.merged, requested |-> Len(m_Offsets)]
          /\ pc' = "computed"
          /\ UNCHANGED <<input, fixed, moving, m_PeakInterpolationMethod, m_MergePeaks,
                         m_ZeroSuppression, m_PixelDistanceTolerance>>

\* ---------------------------------------------------------------- setters
MergePeaksInputs == {0, 1, 2}
ZeroSuppressionInputs == {-1, 101}
PixelDistanceToleranceInputs == {0, 1}
Methods == {"None", "Parabolic", "Cosine"}

Clamp(v, lo, hi) == IF v < lo THEN lo ELSE IF v > hi THEN hi ELSE v

Config == <<m_PeakInterpolationMethod, m_MergePeaks, m_ZeroSuppression,
            m_PixelDistanceTolerance>>

Results == <<m_Offsets, m_Confidences, m_MaxCalculator, locals>>

SetPeakInterpolationMethod(v) ==
  /\ sets < MaxSets
  /\ m_PeakInterpolationMethod # v
  /\ m_PeakInterpolationMethod' = v
  /\ sets' = sets + 1
  /\ pc' = "set"
  /\ UNCHANGED <<input, fixed, moving, m_MergePeaks, m_ZeroSuppression,
                 m_PixelDistanceTolerance, Results, mt>>

SetMergePeaks(v) ==
  /\ sets < MaxSets
  /\ m_MergePeaks # v
  /\ m_MergePeaks' = v
  /\ sets' = sets + 1
  /\ pc' = "set"
  /\ UNCHANGED <<input, fixed, moving, m_PeakInterpolationMethod, m_ZeroSuppression,
                 m_PixelDistanceTolerance, Results, mt>>

SetZeroSuppression(v) ==
  /\ sets < MaxSets
  /\ m_ZeroSuppression # Clamp(v, 0, ZeroSuppressionMax)
  /\ m_ZeroSuppression' = Clamp(v, 0, ZeroSuppressionMax)
  /\ sets' = sets + 1
  /\ pc' = "set"
  /\ UNCHANGED <<input, fixed, moving, m_PeakInterpolationMethod, m_MergePeaks,
                 m_PixelDistanceTolerance, Results, mt>>

SetPixelDistanceTolerance(v) ==
  /\ sets < MaxSets
  /\ m_PixelDistanceTolerance # v
  /\ m_PixelDistanceTolerance' = v
  /\ sets' = sets + 1
  /\ pc' = "set"
  /\ UNCHANGED <<input, fixed, moving, m_PeakInterpolationMethod, m_MergePeaks,
                 m_ZeroSuppression, Results, mt>>

\* the caller takes input 0 away
RemoveInput ==
  /\ sets < MaxSets
  /\ input # NoInput
  /\ input' = NoInput
  /\ sets' = sets + 1
  /\ pc' = "set"
  /\ UNCHANGED <<fixed, moving, Config, Results, mt>>

\* ------------------------------------------------------------------ inputs
GridSize == <<SizeX, SizeY>>
GridIndex == <<0, 0>>
Grid == RegionOf(GridIndex, GridSize)

\* the surfaces: Background everywhere except at up to MaxPeaks indices, where
\* the pixel is the one of a fixed texture of peaks
Backgrounds == {0, -FixedOne}
PeakValues == <<5 * FixedOne, 3 * FixedOne, 4 * FixedOne>>

Texture(ind) == PeakValues[((ind[1] + SizeX * ind[2]) % Len(PeakValues)) + 1]

Surfaces ==
  {[ind \in Grid |-> IF ind \in peaks THEN Texture(ind) ELSE background] :
     background \in Backgrounds,
     peaks \in {Q \in SUBSET Grid : Cardinality(Q) <= MaxPeaks}}

Spacings == {<<2, 1>>}
MovingOrigins == {<<0, 0>>, <<-3, 1>>}

Init ==
  /\ input \in [index : {GridIndex}, size : {GridSize}, pixels : Surfaces]
  /\ fixed \in [spacing : Spacings, origin : {<<0, 0>>}]
  /\ moving \in [origin : MovingOrigins]
  /\ m_PeakInterpolationMethod = "Parabolic"
  /\ m_MergePeaks = DefaultMergePeaks
  /\ m_ZeroSuppression = DefaultZeroSuppression
  /\ m_PixelDistanceTolerance = DefaultPixelDistanceTolerance
  /\ m_Offsets \in {Fill(count, ZeroOffset) : count \in 1 .. MaxOffsetCount}
  /\ m_Confidences = <<>>
  /\ m_MaxCalculator = [image |-> <<>>, N |-> 0, maxima |-> <<>>, indices |-> <<>>]
  /\ locals = NoLocals
  /\ sets = 0
  /\ mt = NoThreads
  /\ pc = "constructed"

Next ==
  \/ ComputeOffset
  \/ \E v \in Methods : SetPeakInterpolationMethod(v)
  \/ \E v \in MergePeaksInputs : SetMergePeaks(v)
  \/ \E v \in ZeroSuppressionInputs : SetZeroSuppression(v)
  \/ \E v \in PixelDistanceToleranceInputs : SetPixelDistanceTolerance(v)
  \/ RemoveInput

Spec == Init /\ [][Next]_vars

\* ------------------------- the two ParallelizeImageRegion stages, by steps
\* the region ComputeOffset hands to ParallelizeImageRegion
wholeImage == [index |-> input.index, size |-> input.size]

\* the sets of at most MaxWorkers - 1 places where axis d of a region is cut
CutSets(region, d) ==
  {C \in SUBSET (1 .. (region.size[d] - 1)) : Cardinality(C) < MaxWorkers}

\* the pieces of a region cut along axis d at the places cuts, from place from
RECURSIVE Pieces(_, _, _, _)
Pieces(region, d, cuts, from) ==
  IF cuts = {}
  THEN <<[index |-> WithAxis(region.index, d, region.index[d] + from),
          size |-> WithAxis(region.size, d, region.size[d] - from)]>>
  ELSE LET c == CHOOSE x \in cuts : \A y \in cuts : x <= y
       IN <<[index |-> WithAxis(region.index, d, region.index[d] + from),
             size |-> WithAxis(region.size, d, c - from)]>>
          \o Pieces(region, d, cuts \ {c}, c)

\* the ways the multithreader splits a region among its workers
Partitions(region) ==
  UNION {{Pieces(region, d, cuts, 0) : cuts \in CutSets(region, d)} : d \in Dims}

\* the lambdas iterate over all of the region wholeImage instead of their own
WorkerRegionWhole(region) == wholeImage

\* the region the iterators of a lambda run over: the one it is called with
WorkerRegion(region) == region

\* what a pixel of iAdjusted reads as: Allocate(false) leaves the buffer
\* uninitialized, a pixel nobody wrote reads as anything
Garbage == {0, FixedOne}

ReadPixel(threads, ind) ==
  IF ind \in threads.written THEN {threads.image[ind]} ELSE Garbage

AllDone(threads) ==
  \A w \in 1 .. Len(threads.regions) :
    threads.pos[w] = NumberOfPixels(WorkerRegion(threads.regions[w]).size, ImageDimension)

\* iAdjusted is allocated and the bias lambda is dispatched
ParallelizeBias ==
  /\ mt.stage = "idle"
  /\ input # NoInput
  /\ \E regions \in Partitions(wholeImage) :
       mt' = [stage |-> "bias", regions |-> regions,
              pos |-> [w \in 1 .. Len(regions) |-> 0],
              image |-> [ind \in DOMAIN input.pixels |-> 0],
              written |-> {}, hardZeroed |-> {}, biased |-> <<>>, last |-> 0]
  /\ pc' = "bias"
  /\ UNCHANGED <<input, fixed, moving, Config, Results, sets>>

\* one round of the loop of the bias lambda of worker w
BiasStep(w) ==
  /\ mt.stage = "bias"
  /\ w <= Len(mt.regions)
  /\ LET region == WorkerRegion(mt.regions[w])
     IN /\ mt.pos[w] < NumberOfPixels(region.size, ImageDimension)
        /\ \E ind \in {IndexAt(region.index, region.size, mt.pos[w])} :
           \E g \in {Geometry} :
             mt' = [mt EXCEPT
                      !.image[ind] = BiasPixel(g, m_PixelDistanceTolerance,
                                               input.pixels[ind], ind),
                      !.written = @ \cup {ind},
                      !.hardZeroed =
                        IF BiasHardZero(m_PixelDistanceTolerance, BiasDist(g, ind))
                        THEN @ \cup {ind} ELSE @,
                      !.pos[w] = @ + 1,
                      !.last = w]
  /\ UNCHANGED <<input, fixed, moving, Config, Results, sets, pc>>

\* ParallelizeImageRegion returns when every worker is done; WriteDebug of
\* iAdjusted
JoinBias ==
  /\ mt.stage = "bias"
  /\ AllDone(mt)
  /\ mt' = [mt EXCEPT !.stage = "biased", !.biased = mt.image, !.last = 0]
  /\ pc' = "biased"
  /\ UNCHANGED <<input, fixed, moving, Config, Results, sets>>

\* the zero suppression lambda is dispatched
ParallelizeZero ==
  /\ mt.stage = "biased"
  /\ m_ZeroSuppression > 0
  /\ \E regions \in Partitions(wholeImage) :
       mt' = [mt EXCEPT !.stage = "zero", !.regions = regions,
                        !.pos = [w \in 1 .. Len(regions) |-> 0]]
  /\ pc' = "zero"
  /\ UNCHANGED <<input, fixed, moving, Config, Results, sets>>

\* one round of the loop of the zero suppression lambda of worker w
ZeroStep(w) ==
  /\ mt.stage = "zero"
  /\ w <= Len(mt.regions)
  /\ LET region == WorkerRegion(mt.regions[w])
     IN /\ mt.pos[w] < NumberOfPixels(region.size, ImageDimension)
        /\ \E ind \in {IndexAt(region.index, region.size, mt.pos[w])} :
           \E pixel \in ReadPixel(mt, ind) :
             mt' = [mt EXCEPT
                      !.image[ind] = ZeroSuppressPixel(Geometry, m_ZeroSuppression,
                                                       pixel, ind),
                      !.written = @ \cup {ind},
                      !.pos[w] = @ + 1,
                      !.last = w]
  /\ UNCHANGED <<input, fixed, moving, Config, Results, sets, pc>>

\* both stages are over: m_MaxCalculator->SetImage(iAdjusted)
SetImage ==
  /\ \/ mt.stage = "biased" /\ m_ZeroSuppression = 0
     \/ mt.stage = "zero" /\ AllDone(mt)
  /\ mt' = [mt EXCEPT !.stage = "done", !.last = 0]
  /\ m_MaxCalculator' = [m_MaxCalculator EXCEPT !.image = mt.image]
  /\ pc' = "surface"
  /\ UNCHANGED <<input, fixed, moving, Config, m_Offsets, m_Confidences, locals, sets>>

\* the inputs of the stages: a grid at index 0 or not, a surface of pixels
\* that all differ, of both signs, and expected indices near and far
ParGridSize == <<ParSizeX, ParSizeY>>
ParIndices == {<<0, 0>>, <<1, 0>>}
ParMovingOrigins == {<<-3, 1>>, <<8, 0>>, <<24, 0>>}
ParZeroSuppressions == {0, DefaultZeroSuppression}

ParGrid(oIndex) ==
  {ind \in [Dims -> 0 .. (ParSizeX + ParSizeY)] : IsInside(oIndex, ParGridSize, ind)}

ParSurface(oIndex) ==
  [ind \in ParGrid(oIndex) |->
     LET k == (ind[1] - oIndex[1]) + ParSizeX * (ind[2] - oIndex[2])
     IN IF k % 3 = 2 THEN -(1 + k) * FixedOne ELSE (1 + k) * FixedOne]

ParInputs ==
  {[index |-> oIndex, size |-> ParGridSize, pixels |-> ParSurface(oIndex)] :
     oIndex \in ParIndices}

InitPar ==
  /\ input \in ParInputs
  /\ fixed \in [spacing : Spacings, origin : {<<0, 0>>}]
  /\ moving \in [origin : ParMovingOrigins]
  /\ m_PeakInterpolationMethod = "Parabolic"
  /\ m_MergePeaks = DefaultMergePeaks
  /\ m_ZeroSuppression \in ParZeroSuppressions
  /\ m_PixelDistanceTolerance \in PixelDistanceToleranceInputs
  /\ m_Offsets = <<ZeroOffset>>
  /\ m_Confidences = <<>>
  /\ m_MaxCalculator = [image |-> <<>>, N |-> 0, maxima |-> <<>>, indices |-> <<>>]
  /\ locals = NoLocals
  /\ sets = 0
  /\ mt = NoThreads
  /\ pc = "constructed"

NextPar ==
  \/ ParallelizeBias
  \/ \E w \in 1 .. MaxWorkers : BiasStep(w)
  \/ JoinBias
  \/ ParallelizeZero
  \/ \E w \in 1 .. MaxWorkers : ZeroStep(w)
  \/ SetImage

SpecPar == InitPar /\ [][NextPar]_vars

\* ================================================================= claims
Min2(a, b) == IF a < b THEN a ELSE b

\* the state right after a ComputeOffset that had its input
AfterCall == pc = "computed"

\* the maxima in front of zeroBound: the candidates that entered the merger
CutMaxima == Resize(m_MaxCalculator.maxima, zeroBound(m_MaxCalculator.maxima), 0)
CutIndices == Resize(m_MaxCalculator.indices, zeroBound(m_MaxCalculator.maxima), 0)

PositiveMerged ==
  Cardinality({j \in 1 .. Len(locals.merged.conf) : locals.merged.conf[j] > 0})

\* C1: after ComputeOffset there are as many offsets as confidences, never
\* more than requested, and exactly min(requested count, number of merged
\* candidates of positive confidence)
C1_OutputCount ==
  AfterCall =>
    /\ Len(m_Offsets) = Len(m_Confidences)
    /\ Len(m_Offsets) <= locals.requested
    /\ Len(m_Offsets) = Min2(locals.requested, PositiveMerged)

\* C2: the confidences ComputeOffset returns are in descending order and
\* each one is greater than 0
C2_SortedPositive ==
  AfterCall =>
    /\ \A m \in 1 .. Len(m_Confidences) : m_Confidences[m] > 0
    /\ \A m \in 1 .. (Len(m_Confidences) - 1) : m_Confidences[m] >= m_Confidences[m + 1]

\* C3: a ComputeOffset right after a ComputeOffset, with nothing set in
\* between, returns the offsets and confidences the first one returned
C3_Idempotent ==
  [][(pc = "computed" /\ pc' = "computed")
       => (m_Offsets' = m_Offsets /\ m_Confidences' = m_Confidences)]_vars

\* C4: after ComputeOffset without input 0 the offsets are one offset, all
\* of whose components are zero
C4_NoInputZeroOffset ==
  pc = "returned" => m_Offsets = <<ZeroOffset>>

\* the circular index distance of a and b, the greatest over the axes
WrapDist(size, a, b) ==
  LET axis(d) == Min2(Abs(a[d] - b[d]), size[d] - Abs(a[d] - b[d]))
  IN CHOOSE x \in {axis(d) : d \in Dims} : \A d \in Dims : axis(d) <= x

\* the positions up to n of the candidates that are farther than mergePeaks
\* from every surviving candidate in front of them
RECURSIVE Survivors(_, _, _, _)
Survivors(size, mergePeaks, ind, n) ==
  IF n = 0 THEN {}
  ELSE LET before == Survivors(size, mergePeaks, ind, n - 1)
       IN IF \E k \in before : WrapDist(size, ind[n], ind[k]) <= mergePeaks
          THEN before ELSE before \cup {n}

\* the surviving candidate that candidate n ends up in
Owner(size, mergePeaks, ind, n) ==
  LET before == Survivors(size, mergePeaks, ind, n - 1)
      near == {k \in before : WrapDist(size, ind[n], ind[k]) <= mergePeaks}
  IN IF near = {} THEN n ELSE CHOOSE k \in near : \A j \in near : k <= j

RECURSIVE SumSeq(_, _)
SumSeq(s, S) ==
  IF S = {} THEN 0 ELSE LET x == CHOOSE y \in S : TRUE IN s[x] + SumSeq(s, S \ {x})

ExpectedMerged(size, mergePeaks, conf, ind) ==
  {<<ind[k], SumSeq(conf, {i \in 1 .. Len(ind) : Owner(size, mergePeaks, ind, i) = k})>> :
     k \in Survivors(size, mergePeaks, ind, Len(ind))}

MergedPeaks == {<<locals.merged.ind[j], locals.merged.conf[j]>> : j \in 1 .. Len(locals.merged.ind)}

\* peaks of confidence 5 and 3 at neighbouring indices, merge distance 1
MergeExample ==
  \A p \in Grid : \A d \in Dims : p[d] + 1 < GridSize[d] =>
    MergePeaks(GridSize, 1, <<5, 3>>, <<p, WithAxis(p, d, p[d] + 1)>>)
      = [conf |-> <<8>>, ind |-> <<p>>]

AbsLess(a, b) == AbsLeq(a, b) /\ ~AbsLeq(b, a)

\* C6: each offset component is the direct or the mirror offset of the
\* refined index, and the other of the two is not smaller in absolute value;
\* index 97 of 100 resolves to the mirror offset 3
ChosenOf(offset, directOffset, mirrorOffset) ==
  \/ offset = directOffset /\ ~AbsLess(mirrorOffset, directOffset)
  \/ offset = mirrorOffset /\ ~AbsLess(directOffset, mirrorOffset)

DirectOf(m, i) ==
  DirectOffset(moving.origin[i] - fixed.origin[i], fixed.spacing[i], input.index[i],
               locals.maxIndex[m][i])

MirrorOf(m, i) ==
  MirrorOffset(moving.origin[i] - fixed.origin[i], fixed.spacing[i],
               input.index[i] + input.size[i], locals.maxIndex[m][i])

C7_RequestedMaxima ==
  AfterCall =>
    m_MaxCalculator.N =
      IF m_MergePeaks > 0
      THEN ((locals.requested + 1) \div 2) * (Pow(3, ImageDimension) - 1)
      ELSE locals.requested

\* y0, y1, y2 of the adjusted surface around ind along axis i
SurfaceSamples(img, ind, i) ==
  [y0 |-> img[WithAxis(ind, i, ind[i] - 1)],
   y1 |-> img[ind],
   y2 |-> img[WithAxis(ind, i, ind[i] + 1)]]

\* C8: the interpolator works on the pixels of the adjusted surface at the
\* index of the candidate and at its two neighbours along the axis, and
\* leaves the axis at the integer index if a neighbour is outside the grid
C8_SurfaceSamples ==
  (AfterCall /\ m_PeakInterpolationMethod # "None") =>
    \A m \in 1 .. Len(locals.indices) : \A i \in Dims :
      LET ind == locals.indices[m]
          y == SurfaceSamples(m_MaxCalculator.image, ind, i)
      IN locals.maxIndex[m][i] =
           IF ~Refinable(Geometry, ind, i) THEN FromInt(ind[i])
           ELSE IF m_PeakInterpolationMethod = "Parabolic" THEN Parabolic(ind[i], y)
           ELSE Cosine(ind[i], y, m)

\* the denominator the Parabolic formula divides by for candidate m, axis i
Denominator(m, i) ==
  LET y == Samples(m_MaxCalculator.image, locals.merged.conf, locals.indices, m, i)
  IN y.y0 - 2 * y.y1 + y.y2

\* C9: in Parabolic mode an axis whose denominator is zero keeps the integer
\* index, and its offset component is finite
C9_ZeroDenominator ==
  (AfterCall /\ m_PeakInterpolationMethod = "Parabolic") =>
    \A m \in 1 .. Len(locals.indices) : \A i \in Dims :
      (Refinable(Geometry, locals.indices[m], i) /\ Denominator(m, i) = 0) =>
        /\ locals.maxIndex[m][i] = FromInt(locals.indices[m][i])
        /\ IsFinite(m_Offsets[m][i])

\* C10: in Parabolic mode the refined index is at most 1 away from the
\* integer index of the candidate, on every axis
C10_RefinedWithinOne ==
  (AfterCall /\ m_PeakInterpolationMethod = "Parabolic") =>
    \A m \in 1 .. Len(locals.indices) : \A i \in Dims :
      AbsLeq(FracSub(locals.maxIndex[m][i], FromInt(locals.indices[m][i])), FromInt(1))


\* ---------------------------------------------------------------- stages
\* the bias stage is over and iAdjusted holds its result
BiasDone == mt.stage \in {"biased", "zero", "done"}

\* the squared index distance of ind to the nearer of the direct and the
\* mirror expected index, axis by axis
NearerDist2(ind) ==
  LET g == Geometry
      square(x) == x * x
      axis == [d \in Dims |-> Min2(square(g.directExpectedIndex[d] - ind[d]),
                                   square(g.mirrorExpectedIndex[d] - ind[d]))]
  IN SumSeq(axis, Dims)

\* the samples farther than factor * t^2 from the expected indices, t > 0
Beyond(factor) ==
  {ind \in DOMAIN input.pixels :
     /\ m_PixelDistanceTolerance > 0
     /\ NearerDist2(ind) > factor * m_PixelDistanceTolerance * m_PixelDistanceTolerance}

\* C11 as stated: with tolerance t > 0 the bias stage sets a sample to 0,
\* instead of multiplying it, exactly if its squared distance to the nearer
\* expected index exceeds 10 * t^2; with t = 0 it sets no sample to 0
C11_HardZeroTen ==
  BiasDone =>
    /\ mt.hardZeroed = Beyond(10)
    /\ \A ind \in mt.hardZeroed : mt.biased[ind] = 0

\* C11 amended: with tolerance t > 0 the bias stage sets a sample to 0,
\* instead of multiplying it, exactly if its squared distance to the nearer
\* expected index exceeds 100 * t^2; with t = 0 it sets no sample to 0
C11_HardZeroHundred ==
  BiasDone =>
    /\ mt.hardZeroed = Beyond(100)
    /\ \A ind \in mt.hardZeroed : mt.biased[ind] = 0

\* a bias stage with t > 0 that set a sample to 0 and multiplied others: one
\* at the distance 100 * t^2 itself and one between 10 * t^2 and 100 * t^2
C11_Witness ==
  /\ BiasDone
  /\ m_PixelDistanceTolerance > 0
  /\ mt.hardZeroed # {}
  /\ \E ind \in DOMAIN input.pixels \ mt.hardZeroed :
       NearerDist2(ind) = 100 * m_PixelDistanceTolerance * m_PixelDistanceTolerance
  /\ \E ind \in Beyond(10) \ mt.hardZeroed : mt.biased[ind] # 0

\* the city-block distance of ind to the zero index of the grid, an axis
\* distance above half the extent of the axis counted around the grid
CityBlockToZero(ind) ==
  LET raw(d) == ind[d] - input.index[d]
      axis == [d \in Dims |-> IF 2 * raw(d) > input.size[d]
                              THEN input.size[d] - raw(d) ELSE raw(d)]
  IN SumSeq(axis, Dims)

\* the samples the zero-shift suppressor is to change
NearZero ==
  {ind \in DOMAIN input.pixels :
     \/ CityBlockToZero(ind) < 4
     \/ \E d \in Dims : ind[d] = input.index[d]}

WorkerStep == mt'.stage = mt.stage /\ mt.stage \in {"bias", "zero"}

\* the samples of iAdjusted the step wrote
WrittenByStep ==
  {ind \in DOMAIN input.pixels :
     mt'.image[ind] # mt.image[ind] \/ ind \in mt'.written \ mt.written}

\* C13: however the grid is split into regions and however the steps of the
\* workers interleave, the bias stage and the zero-shift suppressor leave the
\* surface a single pass over the whole grid computes, sample by sample from
\* the input sample at the same index, and a worker writes only in its region
C13_WorkersAsSequential ==
  /\ [](BiasDone =>
          mt.biased = BiasField(Geometry, m_PixelDistanceTolerance, input.pixels))
  /\ [](mt.stage = "done" =>
          /\ mt.image = iAdjusted(Geometry)
          /\ m_MaxCalculator.image = mt.image)
  /\ [][WorkerStep =>
          \A ind \in WrittenByStep :
            IsInside(mt.regions[mt'.last].index, mt.regions[mt'.last].size, ind)]_vars

\* both stages done by more than one worker, the suppressor having changed
\* the surface
C13_Witness ==
  /\ mt.stage = "done"
  /\ Len(mt.regions) > 1
  /\ m_ZeroSuppression > 0
  /\ mt.image # mt.biased

====
